---- MODULE Spec2Model ----
(***************************************************************************)
(* The notebooks of the repository as one state machine.  A run executes   *)
(* one notebook (nb): its code statements in cell order, one action per    *)
(* statement.  The external services the statements call (the gcloud       *)
(* project registry and configuration, Cloud Storage, the local directory, *)
(* the web) are state variables; a transient failure of an external call   *)
(* is a bounded nondeterministic choice.                                   *)
(***************************************************************************)
EXTENDS Integers, Sequences, FiniteSets, TLC

VARIABLES
    nb,           \* the notebook this run executes
    pc,           \* index of the next statement in Program(nb)
    halted,       \* TRUE once an exception has aborted a cell (and the run)
    cellTrace,    \* statements executed by the current cell execution, with their outcome
    run,          \* how many times the re-runnable part has been started
    faults,       \* transient failures of external calls so far
    log,          \* every command or library call made so far, in order
    decisions,    \* which command outputs were read to decide a later invocation
    py,           \* the Python variables of the notebook's kernel
    installed,    \* `which gcloud` succeeds
    authorized,   \* `gcloud auth print-access-token` succeeds
    configProject,\* the project of the gcloud configuration ("" = unset)
    projects,     \* ids of the active projects of the account
    reservedIds,  \* project ids that exist but are not listed (other owners, deleted)
    owned,        \* names of the buckets of the account
    taken,        \* bucket names that belong to other accounts
    objects,      \* objects[b][n]: the data of object n of bucket b
    local,        \* local[n]: the data of file n of the working directory
    tbDir,        \* the tensorboard directory exists
    tbFiles,      \* the events written to the files of the tensorboard directory
    writerQueue,  \* the events the kernel's FileWriter has accepted and not yet written
    tb            \* the TensorBoard server process

gcloudVars == <<installed, authorized, configProject, projects, reservedIds>>

storageVars == <<owned, taken, objects, local>>

tbVars == <<tbDir, tbFiles, writerQueue, tb>>

vars == <<nb, pc, halted, cellTrace, run, faults, log, decisions, py,
          installed, authorized, configProject, projects, reservedIds,
          owned, taken, objects, local, tbDir, tbFiles, writerQueue, tb>>

----------------------------------------------------------------------------
(* Bounds *)

\* random.getrandbits(32) is drawn from 0..MaxRand
MaxRand == 1

\* transient failures of external calls in one run
MaxFaults == 1

\* times the re-runnable part of a notebook is started
MaxRuns == 2

\* entries of the `results` list of the content-listing response
MaxResults == 2

RandBits == 0..MaxRand

----------------------------------------------------------------------------
(* Statements in cell order; XCells[i] is the cell of statement XStmts[i] *)

GCloudStmts ==
    << "g_which", "g_auth", "g_gcloud", "g_help_auth", "g_help_projects",
       "g_list1", "g_name", "g_create", "g_list2", "g_describe", "g_delete",
       "g_list3", "g_help_config", "g_config_list1", "g_set_name", "g_select",
       "g_config_list2" >>

GCloudCells == << 1, 2, 3, 4, 5, 6, 7, 8, 9, 10, 11, 12, 13, 14, 15, 15, 16 >>

StorageStmts ==
    << "s_which", "s_auth", "s_project", "s_help", "s_ls1", "s_name", "s_mb",
       "s_ls2", "s_rb", "s_ls3", "s_bucket", "s_buckets", "s_mb_if", "s_ls4",
       "s_help_cp", "s_notebooks", "s_cp", "s_ls5", "s_rm", "s_ls6", "s_rm_r" >>

StorageCells ==
    << 1, 1, 1, 2, 3, 4, 5, 6, 7, 8, 9, 9, 9, 9, 10, 11, 12, 13, 14, 15, 16 >>

NytStmts ==
    << "n_pip_bs4", "n_pip_requests", "n_api_key", "n_get_list", "n_loads",
       "n_print_urls", "n_select_url", "n_get_article", "n_soup", "n_find",
       "n_get_text", "n_help_analyze", "n_write", "n_bucket", "n_mb",
       "n_cloud_filename", "n_cp", "n_analyze", "n_join", "n_loads_analysis",
       "n_mentions_lists", "n_mentions", "n_texts", "n_df", "n_unique",
       "n_rm_r" >>

NytCells ==
    << 1, 1, 2, 3, 3, 4, 5, 5, 6, 7, 7, 8, 9, 10, 10, 11, 12, 13, 14, 15,
       16, 17, 18, 19, 20, 21 >>

NnStmts ==
    << "t_import", "t_g", "t_v", "t_v_graph", "t_v_neq", "t_with_v", "t_v_eq",
       "t_u", "t_scaled", "t_scaled_op", "t_normed", "t_scaled_again",
       "t_def_ptc", "t_ptc_graph", "t_ptc_with",
       "t_dir", "t_mkdir", "t_rm", "t_writer", "t_load_ext", "t_tensorboard",
       "t_session", "t_r", "t_theta", "t_phi", "t_xyz", "t_open", "t_init",
       "t_run", "t_print_results", "t_print_in", "t_print_out" >>

NnCells ==
    << 1, 2, 3, 4, 5, 6, 6, 7, 8, 9, 10, 11, 12, 13, 13,
       14, 14, 14, 14, 15, 15,
       16, 16, 16, 16, 16, 16, 16, 16, 16, 16, 16 >>

Program(n) ==
    IF n = "gcloud" THEN GCloudStmts
    ELSE IF n = "storage" THEN StorageStmts
    ELSE IF n = "nyt" THEN NytStmts
    ELSE NnStmts

Cells(n) ==
    IF n = "gcloud" THEN GCloudCells
    ELSE IF n = "storage" THEN StorageCells
    ELSE IF n = "nyt" THEN NytCells
    ELSE NnCells

\* the index of statement s in the program of the notebook
IndexOf(s) == CHOOSE i \in 1..Len(Program(nb)) : Program(nb)[i] = s

Cur == IF ~halted /\ pc \in 1..Len(Program(nb)) THEN Program(nb)[pc] ELSE "end"

Done == ~halted /\ pc = Len(Program(nb)) + 1

\* the statement at pc is the first of its cell
FirstOfCell == pc = 1 \/ Cells(nb)[pc - 1] # Cells(nb)[pc]

\* the trace of the current cell execution once the statement at pc has run
Traced(kind, ok) ==
    IF FirstOfCell THEN << [stmt |-> Cur, kind |-> kind, ok |-> ok] >>
    ELSE Append(cellTrace, [stmt |-> Cur, kind |-> kind, ok |-> ok])

ReadsBeforeRb(stmt) ==
    IF stmt \in {"s_mb_if", "s_rb"} THEN {[by |-> stmt, of |-> "s_buckets"]}
    ELSE IF stmt = "s_project" THEN {[by |-> "s_project", of |-> "get-value"]}
    ELSE IF stmt \in {"g_auth", "s_auth"} /\ ~(installed /\ authorized)
         THEN {[by |-> stmt, of |-> "login"]}
    ELSE {}

\* The outputs a statement reads to decide what the shell or the kernel
\* invokes next: `buckets` in the `if` before gsutil mb; the value of
\* $(gcloud config get-value project) in the [[ ]] test; the output of
\* `gcloud auth login`, which the backquotes turn into a command line.
Reads(stmt) ==
    IF stmt = "s_mb_if" THEN {[by |-> "s_mb_if", of |-> "s_buckets"]}
    ELSE IF stmt = "s_project" THEN {[by |-> "s_project", of |-> "get-value"]}
    ELSE IF stmt \in {"g_auth", "s_auth"} /\ ~(installed /\ authorized)
         THEN {[by |-> stmt, of |-> "login"]}
    ELSE {}

RaiseAndGoOn ==
    /\ pc' = pc + 1
    /\ halted' = FALSE
    /\ cellTrace' = Traced("python", FALSE)
    /\ decisions' = decisions \cup Reads(Cur)

\* A Python statement raised: the cell is aborted, nothing after it runs.
Raise ==
    /\ pc' = pc
    /\ halted' = TRUE
    /\ cellTrace' = Traced("python", FALSE)
    /\ decisions' = decisions \cup Reads(Cur)

\* A Python statement returned: the kernel goes on to the next statement.
Return ==
    /\ pc' = pc + 1
    /\ halted' = FALSE
    /\ cellTrace' = Traced("python", TRUE)
    /\ decisions' = decisions \cup Reads(Cur)

ShellAbortsOnFailure(ok) ==
    /\ pc' = IF ok THEN pc + 1 ELSE pc
    /\ halted' = ~ok
    /\ cellTrace' = Traced("shell", ok)
    /\ decisions' = decisions \cup Reads(Cur)

\* A `!` line has run: IPython shows (or returns) what the command wrote and
\* goes on to the next statement whatever the exit status was.
Shell(ok) ==
    /\ pc' = pc + 1
    /\ halted' = FALSE
    /\ cellTrace' = Traced("shell", ok)
    /\ decisions' = decisions \cup Reads(Cur)

\* The outcomes of an external call whose preconditions are `pre`.
Outcomes(pre) ==
    IF ~pre THEN {FALSE}
    ELSE IF faults < MaxFaults THEN {TRUE, FALSE} ELSE {TRUE}

Fault(pre, ok) == faults' = IF pre /\ ~ok THEN faults + 1 ELSE faults

Cmd(verb, arg, ok, out) ==
    [stmt |-> Cur, run |-> run, verb |-> verb, arg |-> arg, ok |-> ok, out |-> out]

Logged(entries) == log' = log \o entries

----------------------------------------------------------------------------
(* gcloud *)

GcloudReady == installed /\ authorized

RandomProjectName(r) == "amli-cloud-tutorial-" \o ToString(r)

SelectedProjectName == "amli-cloud-tutorial"

ProjectIds == {RandomProjectName(r) : r \in RandBits} \cup {SelectedProjectName}

CreateProjectNowhere(ps, id) == ps

\* gcloud projects create ID
CreateProject(ps, id) == ps \cup {id}

\* gcloud projects delete -q ID
DeleteProject(ps, id) == ps \ {id}

\* !which gcloud || echo "Install GCloud.";
WhichGcloud ==
    /\ Cur \in {"g_which", "s_which"}
    /\ Logged(IF installed
              THEN << Cmd("which", "gcloud", TRUE, {}) >>
              ELSE << Cmd("which", "gcloud", FALSE, {}),
                      Cmd("echo", "Install GCloud.", TRUE, {}) >>)
    /\ Shell(TRUE)
    /\ UNCHANGED <<nb, tbVars, run, faults, py, gcloudVars, storageVars>>

\* !gcloud auth print-access-token || `gcloud auth login`;
\* When the token cannot be printed, the backquotes run gcloud auth login and
\* hand what it wrote to standard output back to the shell as a command line.
AuthOrLogin ==
    /\ Cur \in {"g_auth", "s_auth"}
    /\ \/ /\ GcloudReady
          /\ Logged(<< Cmd("print-access-token", "", TRUE, {}) >>)
          /\ Shell(TRUE)
          /\ UNCHANGED authorized
       \/ /\ ~GcloudReady
          /\ \E granted \in (IF installed THEN BOOLEAN ELSE {FALSE}),
                wrote \in (IF installed THEN BOOLEAN ELSE {FALSE}) :
                /\ authorized' = granted
                /\ Logged(<< Cmd("print-access-token", "", FALSE, {}),
                             Cmd("login", "", granted, {}) >>
                          \o IF wrote
                             THEN << Cmd("exec-output", "login", FALSE, {}) >>
                             ELSE << >>)
                /\ Shell(granted /\ ~wrote)
    /\ UNCHANGED <<nb, tbVars, run, faults, py, installed, configProject, projects,
                   reservedIds, storageVars>>

\* commands that only display text: !gcloud (an error: no subcommand),
\* !gcloud help ..., !gsutil help ..., !gcloud config list
Display ==
    /\ Cur \in {"g_gcloud", "g_help_auth", "g_help_projects", "g_help_config",
                "g_config_list1", "g_config_list2", "s_help", "s_help_cp",
                "n_help_analyze"}
    /\ LET ok == installed /\ Cur # "g_gcloud"
       IN /\ Logged(<< Cmd("display", Cur, ok,
                           IF ok /\ Cur \in {"g_config_list1", "g_config_list2"}
                           THEN {configProject} ELSE {}) >>)
          /\ Shell(ok)
    /\ UNCHANGED <<nb, tbVars, run, faults, py, gcloudVars, storageVars>>

\* !gcloud projects list
ProjectsList ==
    /\ Cur \in {"g_list1", "g_list2", "g_list3"}
    /\ \E ok \in Outcomes(GcloudReady) :
            /\ Fault(GcloudReady, ok)
            /\ Logged(<< Cmd("list", "", ok, IF ok THEN projects ELSE {}) >>)
            /\ Shell(ok)
    /\ UNCHANGED <<nb, tbVars, run, py, gcloudVars, storageVars>>

\* project_name = "amli-cloud-tutorial-" + str(random.getrandbits(32))
PickProjectName ==
    /\ Cur \in {"g_name"}
    /\ \E r \in RandBits : py' = [py EXCEPT !.project_name = RandomProjectName(r)]
    /\ Return
    /\ UNCHANGED <<nb, tbVars, run, faults, log, gcloudVars, storageVars>>

\* !gcloud projects create {project_name}
ProjectsCreate ==
    /\ Cur \in {"g_create"}
    /\ LET id == py.project_name
           pre == GcloudReady /\ id \notin projects \cup reservedIds
       IN \E ok \in Outcomes(pre) :
            /\ Fault(pre, ok)
            /\ projects' = IF ok THEN CreateProject(projects, id) ELSE projects
            /\ Logged(<< Cmd("create", id, ok, {}) >>)
            /\ Shell(ok)
    /\ UNCHANGED <<nb, tbVars, run, py, installed, authorized, configProject,
                   reservedIds, storageVars>>

\* !gcloud projects describe {project_name}
ProjectsDescribe ==
    /\ Cur \in {"g_describe"}
    /\ LET id == py.project_name
           pre == GcloudReady /\ id \in projects
       IN \E ok \in Outcomes(pre) :
            /\ Fault(pre, ok)
            /\ Logged(<< Cmd("describe", id, ok, IF ok THEN {id} ELSE {}) >>)
            /\ Shell(ok)
    /\ UNCHANGED <<nb, tbVars, run, py, gcloudVars, storageVars>>

\* !gcloud projects delete -q {project_name}
\* the id of a deleted project stays reserved
ProjectsDelete ==
    /\ Cur \in {"g_delete"}
    /\ LET id == py.project_name
           pre == GcloudReady /\ id \in projects
       IN \E ok \in Outcomes(pre) :
            /\ Fault(pre, ok)
            /\ projects' = IF ok THEN DeleteProject(projects, id) ELSE projects
            /\ reservedIds' = IF ok THEN reservedIds \cup {id} ELSE reservedIds
            /\ Logged(<< Cmd("delete", id, ok, {}) >>)
            /\ Shell(ok)
    /\ UNCHANGED <<nb, tbVars, run, py, installed, authorized, configProject,
                   storageVars>>

\* project_name = "amli-cloud-tutorial"
SetProjectName ==
    /\ Cur \in {"g_set_name"}
    /\ py' = [py EXCEPT !.project_name = SelectedProjectName]
    /\ Return
    /\ UNCHANGED <<nb, tbVars, run, faults, log, gcloudVars, storageVars>>

\* !gcloud config set project {project_name}
\* the property is set whether or not the project exists
ConfigSetProject ==
    /\ Cur \in {"g_select"}
    /\ LET id == py.project_name
       IN /\ configProject' = IF installed THEN id ELSE configProject
          /\ Logged(<< Cmd("select", id, installed, {}) >>)
          /\ Shell(installed)
    /\ UNCHANGED <<nb, tbVars, run, faults, py, installed, authorized,
                   projects, reservedIds, storageVars>>

----------------------------------------------------------------------------
(* File and object names: sequences of tokens, "." and "/" being tokens *)

IpynbSuffix == << ".", "ipynb" >>

\* the files the working directory may hold
LocalNames ==
    { << "a", ".", "ipynb" >>, << ".", "b", ".", "ipynb" >>, << "c", ".", "txt" >> }

\* the objects a bucket may hold before the notebook runs
PriorNames ==
    { << "a", ".", "ipynb" >>, << "d", "/", "e", ".", "ipynb" >>, << "f", ".", "txt" >> }

\* the directories the notebook may be run in: an empty one, one holding a single
\* notebook, one holding every kind of name
LocalListings == { {}, { << "a", ".", "ipynb" >> }, LocalNames }

\* what the tutorial bucket may hold before the notebook runs: nothing, no top-level
\* notebook, every kind of name
PriorListings ==
    { {}, { << "d", "/", "e", ".", "ipynb" >>, << "f", ".", "txt" >> }, PriorNames }

\* str.endswith
EndsWith(n, suffix) ==
    /\ Len(n) >= Len(suffix)
    /\ SubSeq(n, Len(n) - Len(suffix) + 1, Len(n)) = suffix

\* the shell's *.ipynb : the * does not match a leading "."
ShellGlobIpynb(n) == EndsWith(n, IpynbSuffix) /\ n[1] # "."

CloudGlobAnyDepth(n) == EndsWith(n, IpynbSuffix)

\* gsutil's gs://bucket/*.ipynb : the * matches a leading "." but no "/"
CloudGlobIpynb(n) ==
    EndsWith(n, IpynbSuffix) /\ \A i \in 1..Len(n) : n[i] # "/"

RECURSIVE NameStr(_)
NameStr(n) == IF n = << >> THEN "" ELSE Head(n) \o NameStr(Tail(n))

----------------------------------------------------------------------------
(* gsutil *)

RandomBucket(r) == "amli-cloud-tutorial-bucket-" \o ToString(r)

TutorialBucket == "amli-cloud-tutorial-bucket"

NytBucket == "amli-tutorial-ml-entity-analysis"

BucketNames == {RandomBucket(r) : r \in RandBits} \cup {TutorialBucket, NytBucket}

Url(b) == "gs://" \o b \o "/"

\* bucket_name = "gs://amli-cloud-tutorial-bucket-" + str(...) + "/"
RandomBucketUrl(r) == "gs://amli-cloud-tutorial-bucket-" \o ToString(r) \o "/"

\* bucket = "gs://amli-cloud-tutorial-bucket/"
BucketLiteral == "gs://amli-cloud-tutorial-bucket/"

\* the bucket a gs:// url names ("" if it names none)
BucketOf(url) ==
    IF \E b \in BucketNames : Url(b) = url
    THEN CHOOSE b \in BucketNames : Url(b) = url
    ELSE ""

NoObjects == [n \in {} |-> ""]

\* the objects of a bucket after `names` have been copied from `files` into it
Put(objs, files, names) ==
    [n \in (DOMAIN objs) \cup names |-> IF n \in names THEN files[n] ELSE objs[n]]

RemoveTopLevel(objs, names) ==
    [n \in (DOMAIN objs) \ {m \in names : \A i \in DOMAIN m : m[i] # "/"} |-> objs[n]]

\* the objects of a bucket after `names` have been removed from it
Remove(objs, names) == [n \in (DOMAIN objs) \ names |-> objs[n]]

\* the lines of `gsutil ls`: one url per bucket of the account
LsLines(ok) == IF ok THEN {Url(b) : b \in owned} ELSE {"CommandException"}

MustMakeAlways(bucket, buckets) == TRUE

\* if bucket not in buckets:
MustMake(bucket, buckets) == bucket \notin buckets

\* ![[ ! -z $(gcloud config get-value project) ]] || echo "Select a project."
CheckProject ==
    /\ Cur \in {"s_project"}
    /\ LET value == IF installed THEN configProject ELSE ""
       IN Logged(<< Cmd("get-value", "project", installed, {value}) >>
                 \o IF value = ""
                    THEN << Cmd("echo", "Select a project.", TRUE, {}) >>
                    ELSE << >>)
    /\ Shell(TRUE)
    /\ UNCHANGED <<nb, tbVars, run, faults, py, gcloudVars, storageVars>>

\* !gsutil ls
GsutilLs ==
    /\ Cur \in {"s_ls1", "s_ls2", "s_ls3", "s_ls4"}
    /\ \E ok \in Outcomes(GcloudReady) :
            /\ Fault(GcloudReady, ok)
            /\ Logged(<< Cmd("ls", "", ok, LsLines(ok)) >>)
            /\ Shell(ok)
    /\ UNCHANGED <<nb, tbVars, run, py, gcloudVars, storageVars>>

\* !gsutil ls {bucket}
GsutilLsBucket ==
    /\ Cur \in {"s_ls5", "s_ls6"}
    /\ LET b == BucketOf(py.bucket)
           pre == GcloudReady /\ b \in owned
       IN \E ok \in Outcomes(pre) :
            /\ Fault(pre, ok)
            /\ Logged(<< Cmd("ls", py.bucket, ok,
                             IF ok THEN DOMAIN objects[b] ELSE {}) >>)
            /\ Shell(ok)
    /\ UNCHANGED <<nb, tbVars, run, py, gcloudVars, storageVars>>

\* bucket_name = "gs://amli-cloud-tutorial-bucket-" + str(random.getrandbits(32)) + "/"
PickBucketName ==
    /\ Cur \in {"s_name"}
    /\ \E r \in RandBits : py' = [py EXCEPT !.bucket_name = RandomBucketUrl(r)]
    /\ Return
    /\ UNCHANGED <<nb, tbVars, run, faults, log, gcloudVars, storageVars>>

\* gsutil mb URL: the name must be free in the global namespace (else 409)
Mb(url) ==
    LET b == BucketOf(url)
        pre == GcloudReady /\ b # "" /\ b \notin owned \cup taken
    IN \E ok \in Outcomes(pre) :
            /\ Fault(pre, ok)
            /\ owned' = IF ok THEN owned \cup {b} ELSE owned
            /\ Logged(<< Cmd("mb", url, ok, {}) >>)
            /\ Shell(ok)
            /\ UNCHANGED <<taken, objects, local>>

\* !gsutil mb {bucket_name}
GsutilMb ==
    /\ Cur \in {"s_mb", "n_mb"}
    /\ Mb(IF Cur = "s_mb" THEN py.bucket_name ELSE py.google_cloud_bucket)
    /\ UNCHANGED <<nb, tbVars, run, py, gcloudVars>>

\* !gsutil rb {bucket_name} : removes an empty bucket
GsutilRb ==
    /\ Cur \in {"s_rb"}
    /\ LET b == BucketOf(py.bucket_name)
           pre == GcloudReady /\ b \in owned /\ DOMAIN objects[b] = {}
       IN \E ok \in Outcomes(pre) :
            /\ Fault(pre, ok)
            /\ owned' = IF ok THEN owned \ {b} ELSE owned
            /\ Logged(<< Cmd("rb", py.bucket_name, ok, {}) >>)
            /\ Shell(ok)
    /\ UNCHANGED <<nb, tbVars, run, py, gcloudVars, taken, objects, local>>

\* bucket = "gs://amli-cloud-tutorial-bucket/"
SetBucket ==
    /\ Cur \in {"s_bucket"}
    /\ py' = [py EXCEPT !.bucket = BucketLiteral]
    /\ Return
    /\ UNCHANGED <<nb, tbVars, run, faults, log, gcloudVars, storageVars>>

\* buckets = !gsutil ls
CaptureBuckets ==
    /\ Cur \in {"s_buckets"}
    /\ \E ok \in Outcomes(GcloudReady) :
            /\ Fault(GcloudReady, ok)
            /\ py' = [py EXCEPT !.buckets = LsLines(ok)]
            /\ Logged(<< Cmd("ls", "", ok, LsLines(ok)) >>)
            /\ Shell(ok)
    /\ UNCHANGED <<nb, tbVars, run, gcloudVars, storageVars>>

\* if bucket not in buckets:
\*     !gsutil mb {bucket}
MbIfAbsent ==
    /\ Cur \in {"s_mb_if"}
    /\ IF MustMake(py.bucket, py.buckets)
       THEN Mb(py.bucket)
       ELSE /\ Return
            /\ UNCHANGED <<faults, log, storageVars>>
    /\ UNCHANGED <<nb, tbVars, run, py, gcloudVars>>

\* The cell "Let's create a bucket for future projects" is run once more.
RerunCreateBucketCell ==
    /\ Cur \in {"s_help_cp"}
    /\ run < MaxRuns
    /\ run' = run + 1
    /\ pc' = IndexOf("s_bucket")
    /\ UNCHANGED <<nb, tbVars, halted, cellTrace, faults, log, decisions, py,
                   gcloudVars, storageVars>>

\* notebooks = [nb for nb in os.listdir(".") if nb.endswith(".ipynb")]
ListNotebooks ==
    /\ Cur \in {"s_notebooks"}
    /\ py' = [py EXCEPT !.notebooks =
                 {n \in DOMAIN local : EndsWith(n, IpynbSuffix)}]
    /\ Return
    /\ UNCHANGED <<nb, tbVars, run, faults, log, gcloudVars, storageVars>>

\* !gsutil cp *.ipynb {bucket}
\* a failed copy may have uploaded some of the files
GsutilCp ==
    /\ Cur \in {"s_cp"}
    /\ LET b == BucketOf(py.bucket)
           matched == {n \in DOMAIN local : ShellGlobIpynb(n)}
           pre == GcloudReady /\ b \in owned /\ matched # {}
       IN \E ok \in Outcomes(pre) :
          \E sent \in (IF ok THEN {matched}
                       ELSE IF pre THEN (SUBSET matched) \ {matched} ELSE {{}}) :
            /\ Fault(pre, ok)
            /\ objects' = IF sent = {} THEN objects
                          ELSE [objects EXCEPT ![b] = Put(@, local, sent)]
            /\ Logged(<< Cmd("cp", py.bucket, ok, sent) >>)
            /\ Shell(ok)
    /\ UNCHANGED <<nb, tbVars, run, py, gcloudVars, owned, taken, local>>

\* !gsutil rm {bucket}*.ipynb
\* a failed removal may have removed some of the objects
GsutilRm ==
    /\ Cur \in {"s_rm"}
    /\ LET b == BucketOf(py.bucket)
           matched == IF b \in owned
                      THEN {n \in DOMAIN objects[b] : CloudGlobIpynb(n)} ELSE {}
           pre == GcloudReady /\ b \in owned /\ matched # {}
       IN \E ok \in Outcomes(pre) :
          \E gone \in (IF ok THEN {matched}
                       ELSE IF pre THEN (SUBSET matched) \ {matched} ELSE {{}}) :
            /\ Fault(pre, ok)
            /\ objects' = IF gone = {} THEN objects
                          ELSE [objects EXCEPT ![b] = Remove(@, gone)]
            /\ Logged(<< Cmd("rm", py.bucket, ok, gone) >>)
            /\ Shell(ok)
    /\ UNCHANGED <<nb, tbVars, run, py, gcloudVars, owned, taken, local>>

\* gsutil rm -r URL : removes every object of the bucket, then the bucket;
\* a failed removal may have removed some of the objects
RmR(url) ==
    LET b == BucketOf(url)
        all == IF b \in owned THEN DOMAIN objects[b] ELSE {}
        pre == GcloudReady /\ b \in owned
    IN \E ok \in Outcomes(pre) :
       \E gone \in (IF ok THEN {all} ELSE IF pre THEN SUBSET all ELSE {{}}) :
            /\ Fault(pre, ok)
            /\ objects' = IF gone = {} THEN objects
                          ELSE [objects EXCEPT ![b] = Remove(@, gone)]
            /\ owned' = IF ok THEN owned \ {b} ELSE owned
            /\ Logged(<< Cmd("rm-r", url, ok, gone) >>)
            /\ Shell(ok)
            /\ UNCHANGED <<taken, local>>

\* !gsutil rm -r {bucket}
GsutilRmR ==
    /\ Cur \in {"s_rm_r", "n_rm_r"}
    /\ RmR(IF Cur = "s_rm_r" THEN py.bucket ELSE py.google_cloud_bucket)
    /\ UNCHANGED <<nb, tbVars, run, py, gcloudVars>>

----------------------------------------------------------------------------
(* The New York Times notebook *)

\* the article urls the content API may list
ArticleUrls == {"u1", "u2", "u3"}

\* what requests.get(url) answers: u1 and u2 hold a section named
\* articleBody, u3 holds none
Page(u) ==
    IF u = "u1" THEN [section |-> TRUE, text |-> "t1"]
    ELSE IF u = "u2" THEN [section |-> TRUE, text |-> "t2"]
    ELSE [section |-> FALSE, text |-> ""]

RECURSIVE SeqsUpTo(_, _)
SeqsUpTo(S, n) ==
    IF n = 0 THEN {<< >>}
    ELSE LET shorter == SeqsUpTo(S, n - 1)
         IN shorter \cup {Append(q, x) : q \in shorter, x \in S}

\* the `results` lists the content API may answer
ResultLists == SeqsUpTo({[url |-> u] : u \in ArticleUrls}, MaxResults)

Mention(c) == [text |-> [content |-> c, beginOffset |-> 0]]

\* the `entities` lists the analysis may answer
EntityLists ==
    { << >>,
      << [name |-> "A", mentions |-> << Mention("a"), Mention("b") >>],
         [name |-> "B", mentions |-> << Mention("a") >>] >>,
      << [name |-> "C", mentions |-> << >>],
         [name |-> "D", mentions |-> << Mention("d") >>] >> }

\* nyt_text_filename = "nyt.txt"
NytFilename == "nyt.txt"

NytName == << "nyt", ".", "txt" >>

AllNames == LocalNames \cup PriorNames \cup {NytName}

\* google_cloud_bucket = "gs://amli-tutorial-ml-entity-analysis/"
NytBucketLiteral == "gs://amli-tutorial-ml-entity-analysis/"

\* the index in `response_json["results"][1]`
SelectedIndex == 1

\* Python's seq[i], i counted from 0
PyItem(q, i) == q[i + 1]

\* the file a name written in a command line denotes
NameOf(str) ==
    IF \E n \in AllNames : NameStr(n) = str
    THEN CHOOSE n \in AllNames : NameStr(n) = str
    ELSE << >>

\* the bucket and the object a gs://bucket/object url denotes
ObjectOf(url) ==
    IF \E b \in BucketNames, n \in AllNames : Url(b) \o NameStr(n) = url
    THEN CHOOSE bn \in BucketNames \X AllNames : Url(bn[1]) \o NameStr(bn[2]) = url
    ELSE << "", << >> >>

WriteTextNowhere(files, n, text) == files

\* with open(name, "w") as f: f.write(text)
WriteText(files, n, text) ==
    [m \in (DOMAIN files) \cup {n} |-> IF m = n THEN text ELSE files[m]]

\* cloud_nyt_text_filename = google_cloud_bucket + nyt_text_filename
CloudFilename(bucket, filename) == bucket \o filename

RECURSIVE FlattenBackwards(_)
FlattenBackwards(lists) ==
    IF lists = << >> THEN << >>
    ELSE FlattenBackwards(Tail(lists)) \o Head(lists)

RECURSIVE Flatten(_)
\* [mention for mentions_list in mentions_lists for mention in mentions_list]
Flatten(lists) ==
    IF lists = << >> THEN << >> ELSE Head(lists) \o Flatten(Tail(lists))

RECURSIVE UniqueOfNeighbours(_)
UniqueOfNeighbours(q) ==
    IF Len(q) <= 1 THEN q
    ELSE LET u == UniqueOfNeighbours(SubSeq(q, 1, Len(q) - 1))
             x == q[Len(q)]
         IN IF u[Len(u)] = x THEN u ELSE Append(u, x)

RECURSIVE Unique(_)
\* Series.unique(): the distinct values in order of first appearance
Unique(q) ==
    IF q = << >> THEN << >>
    ELSE LET u == Unique(SubSeq(q, 1, Len(q) - 1))
             x == q[Len(q)]
         IN IF \E i \in DOMAIN u : u[i] = x THEN u ELSE Append(u, x)

\* !pip install bs4 ; !pip install requests
PipInstall ==
    /\ Cur \in {"n_pip_bs4", "n_pip_requests"}
    /\ \E ok \in Outcomes(TRUE) :
            /\ Fault(TRUE, ok)
            /\ Logged(<< Cmd("pip", Cur, ok, {}) >>)
            /\ Shell(ok)
    /\ UNCHANGED <<nb, tbVars, run, py, gcloudVars, storageVars>>

\* api_key = "..."
SetApiKey ==
    /\ Cur \in {"n_api_key"}
    /\ Return
    /\ UNCHANGED <<nb, tbVars, run, faults, log, py, gcloudVars, storageVars>>

\* response = requests.get(request_url)
\* The call raises when the connection fails; the API answers a JSON object
\* with a `results` list, a JSON fault object, or a page that is not JSON.
GetList ==
    /\ Cur \in {"n_get_list"}
    /\ \/ /\ faults < MaxFaults
          /\ faults' = faults + 1
          /\ Logged(<< Cmd("get", "list", FALSE, {}) >>)
          /\ Raise
          /\ UNCHANGED py
       \/ /\ faults < MaxFaults
          /\ faults' = faults + 1
          /\ \E kind \in {"fault", "text"} :
                py' = [py EXCEPT !.response = [kind |-> kind, results |-> << >>, url |-> ""]]
          /\ Logged(<< Cmd("get", "list", TRUE, {}) >>)
          /\ Return
       \/ /\ UNCHANGED faults
          /\ \E rs \in ResultLists :
                py' = [py EXCEPT !.response = [kind |-> "results", results |-> rs, url |-> ""]]
          /\ Logged(<< Cmd("get", "list", TRUE, {}) >>)
          /\ Return
    /\ UNCHANGED <<nb, tbVars, run, gcloudVars, storageVars>>

\* response_json = json.loads(response.content)
LoadsList ==
    /\ Cur \in {"n_loads"}
    /\ IF py.response.kind \in {"results", "fault"}
       THEN /\ py' = [py EXCEPT !.response_json =
                         [hasResults |-> py.response.kind = "results",
                          results |-> py.response.results]]
            /\ Return
       ELSE /\ Raise
            /\ UNCHANGED py
    /\ UNCHANGED <<nb, tbVars, run, faults, log, gcloudVars, storageVars>>

\* for result in response_json["results"]: print(result["url"])
PrintUrls ==
    /\ Cur \in {"n_print_urls"}
    /\ IF py.response_json.hasResults THEN Return ELSE Raise
    /\ UNCHANGED <<nb, tbVars, run, faults, log, py, gcloudVars, storageVars>>

\* url = response_json["results"][1]["url"]
SelectUrl ==
    /\ Cur \in {"n_select_url"}
    /\ LET rs == py.response_json.results
       IN IF py.response_json.hasResults /\ SelectedIndex + 1 \in DOMAIN rs
          THEN /\ py' = [py EXCEPT !.url = PyItem(rs, SelectedIndex).url]
               /\ Logged(<< Cmd("select", PyItem(rs, SelectedIndex).url, TRUE, {}) >>)
               /\ Return
          ELSE /\ Raise
               /\ UNCHANGED <<py, log>>
    /\ UNCHANGED <<nb, tbVars, run, faults, gcloudVars, storageVars>>

\* response = requests.get(url)
GetArticle ==
    /\ Cur \in {"n_get_article"}
    /\ \/ /\ faults < MaxFaults
          /\ faults' = faults + 1
          /\ Logged(<< Cmd("get", py.url, FALSE, {}) >>)
          /\ Raise
          /\ UNCHANGED py
       \/ /\ UNCHANGED faults
          /\ py' = [py EXCEPT !.response =
                       [kind |-> "html", results |-> << >>, url |-> py.url]]
          /\ Logged(<< Cmd("get", py.url, TRUE, {}) >>)
          /\ Return
    /\ UNCHANGED <<nb, tbVars, run, gcloudVars, storageVars>>

\* soup = BeautifulSoup(response.content); print(soup.prettify())
MakeSoup ==
    /\ Cur \in {"n_soup"}
    /\ py' = [py EXCEPT !.soup = Page(py.response.url)]
    /\ Return
    /\ UNCHANGED <<nb, tbVars, run, faults, log, gcloudVars, storageVars>>

\* article = soup.find("section", attrs={"name": "articleBody"})
FindArticle ==
    /\ Cur \in {"n_find"}
    /\ py' = [py EXCEPT !.article =
                 IF py.soup.section THEN [none |-> FALSE, text |-> py.soup.text]
                 ELSE [none |-> TRUE, text |-> ""]]
    /\ Return
    /\ UNCHANGED <<nb, tbVars, run, faults, log, gcloudVars, storageVars>>

\* article_text = article.get_text()
GetText ==
    /\ Cur \in {"n_get_text"}
    /\ IF py.article.none
       THEN /\ Raise
            /\ UNCHANGED <<py, log>>
       ELSE /\ py' = [py EXCEPT !.article_text = py.article.text]
            /\ Logged(<< Cmd("extract", "articleBody", TRUE, {py.article.text}) >>)
            /\ Return
    /\ UNCHANGED <<nb, tbVars, run, faults, gcloudVars, storageVars>>

\* nyt_text_filename = "nyt.txt"
\* with open(nyt_text_filename, "w") as nyt_text_file:
\*     nyt_text_file.write(article_text)
WriteArticle ==
    /\ Cur \in {"n_write"}
    /\ py' = [py EXCEPT !.nyt_text_filename = NytFilename]
    /\ local' = WriteText(local, NameOf(NytFilename), py.article_text)
    /\ Logged(<< Cmd("write", NytFilename, TRUE, {py.article_text}) >>)
    /\ Return
    /\ UNCHANGED <<nb, tbVars, run, faults, gcloudVars, owned, taken, objects>>

\* google_cloud_bucket = "gs://amli-tutorial-ml-entity-analysis/"
SetNytBucket ==
    /\ Cur \in {"n_bucket"}
    /\ py' = [py EXCEPT !.google_cloud_bucket = NytBucketLiteral]
    /\ Return
    /\ UNCHANGED <<nb, tbVars, run, faults, log, gcloudVars, storageVars>>

\* cloud_nyt_text_filename = google_cloud_bucket + nyt_text_filename
SetCloudFilename ==
    /\ Cur \in {"n_cloud_filename"}
    /\ py' = [py EXCEPT !.cloud_nyt_text_filename =
                 CloudFilename(py.google_cloud_bucket, py.nyt_text_filename)]
    /\ Return
    /\ UNCHANGED <<nb, tbVars, run, faults, log, gcloudVars, storageVars>>

\* !gsutil cp {nyt_text_filename} {cloud_nyt_text_filename}
GsutilCpFile ==
    /\ Cur \in {"n_cp"}
    /\ LET src == NameOf(py.nyt_text_filename)
           dst == ObjectOf(py.cloud_nyt_text_filename)
           pre == GcloudReady /\ src \in DOMAIN local /\ dst[1] \in owned
       IN \E ok \in Outcomes(pre) :
            /\ Fault(pre, ok)
            /\ objects' = IF ok
                          THEN [objects EXCEPT ![dst[1]] =
                                   [n \in (DOMAIN @) \cup {dst[2]} |->
                                       IF n = dst[2] THEN local[src] ELSE @[n]]]
                          ELSE objects
            /\ Logged(<< Cmd("cp", py.cloud_nyt_text_filename, ok,
                             IF ok THEN {local[src]} ELSE {}) >>)
            /\ Shell(ok)
    /\ UNCHANGED <<nb, tbVars, run, py, gcloudVars, owned, taken, local>>

\* analysis_lines = !gcloud ml language analyze-entities --content-file={cloud_nyt_text_filename}
\* the lines are the JSON of the analysis of the object's text, or an error text
AnalyzeEntities ==
    /\ Cur \in {"n_analyze"}
    /\ LET obj == ObjectOf(py.cloud_nyt_text_filename)
           pre == /\ GcloudReady
                  /\ obj[1] \in owned
                  /\ obj[2] \in DOMAIN objects[obj[1]]
       IN \E ok \in Outcomes(pre) :
          \E es \in (IF ok THEN EntityLists ELSE {<< >>}) :
            /\ Fault(pre, ok)
            /\ py' = [py EXCEPT !.analysis_lines = [json |-> ok, entities |-> es]]
            /\ Logged(<< Cmd("analyze", py.cloud_nyt_text_filename, ok,
                             IF ok THEN {objects[obj[1]][obj[2]]} ELSE {}) >>)
            /\ Shell(ok)
    /\ UNCHANGED <<nb, tbVars, run, gcloudVars, storageVars>>

\* analysis = "\n".join(analysis_lines); print(analysis)
JoinLines ==
    /\ Cur \in {"n_join"}
    /\ py' = [py EXCEPT !.analysis = py.analysis_lines]
    /\ Return
    /\ UNCHANGED <<nb, tbVars, run, faults, log, gcloudVars, storageVars>>

\* analysis_json = json.loads(analysis); entities = analysis_json["entities"]
LoadsAnalysis ==
    /\ Cur \in {"n_loads_analysis"}
    /\ IF py.analysis.json
       THEN /\ py' = [py EXCEPT !.entities = py.analysis.entities]
            /\ Logged(<< Cmd("loads", "analysis", TRUE, {}) >>)
            /\ Return
       ELSE /\ Raise
            /\ UNCHANGED <<py, log>>
    /\ UNCHANGED <<nb, tbVars, run, faults, gcloudVars, storageVars>>

\* mentions_lists = [entity["mentions"] for entity in entities]
MentionsLists ==
    /\ Cur \in {"n_mentions_lists"}
    /\ py' = [py EXCEPT !.mentions_lists =
                 [i \in DOMAIN py.entities |-> py.entities[i].mentions]]
    /\ Return
    /\ UNCHANGED <<nb, tbVars, run, faults, log, gcloudVars, storageVars>>

\* mentions = [mention for mentions_list in mentions_lists for mention in mentions_list]
FlattenMentions ==
    /\ Cur \in {"n_mentions"}
    /\ py' = [py EXCEPT !.mentions = Flatten(py.mentions_lists)]
    /\ Logged(<< Cmd("flatten", "mentions", TRUE, {}) >>)
    /\ Return
    /\ UNCHANGED <<nb, tbVars, run, faults, gcloudVars, storageVars>>

\* texts = [mention["text"] for mention in mentions]
MentionTexts ==
    /\ Cur \in {"n_texts"}
    /\ py' = [py EXCEPT !.texts = [i \in DOMAIN py.mentions |-> py.mentions[i].text]]
    /\ Return
    /\ UNCHANGED <<nb, tbVars, run, faults, log, gcloudVars, storageVars>>

\* df = pandas.DataFrame(texts)
MakeDataFrame ==
    /\ Cur \in {"n_df"}
    /\ py' = [py EXCEPT !.df = py.texts]
    /\ Return
    /\ UNCHANGED <<nb, tbVars, run, faults, log, gcloudVars, storageVars>>

\* df["content"].unique() : a frame made of no rows has no column "content"
UniqueContent ==
    /\ Cur \in {"n_unique"}
    /\ IF py.df = << >>
       THEN /\ Raise
            /\ UNCHANGED py
       ELSE /\ py' = [py EXCEPT !.unique =
                         Unique([i \in DOMAIN py.df |-> py.df[i].content])]
            /\ Return
    /\ UNCHANGED <<nb, tbVars, run, faults, log, gcloudVars, storageVars>>

----------------------------------------------------------------------------

PyInit ==
    [project_name |-> "", bucket_name |-> "", bucket |-> "", buckets |-> {},
     notebooks |-> {},
     response |-> [kind |-> "", results |-> << >>, url |-> ""],
     response_json |-> [hasResults |-> FALSE, results |-> << >>],
     url |-> "",
     soup |-> [section |-> FALSE, text |-> ""],
     article |-> [none |-> TRUE, text |-> ""],
     article_text |-> "",
     nyt_text_filename |-> "",
     google_cloud_bucket |-> "",
     cloud_nyt_text_filename |-> "",
     analysis_lines |-> [json |-> FALSE, entities |-> << >>],
     analysis |-> [json |-> FALSE, entities |-> << >>],
     entities |-> << >>,
     mentions_lists |-> << >>,
     mentions |-> << >>,
     texts |-> << >>,
     df |-> << >>,
     unique |-> << >>,
     tensorboard_dir |-> "",
     graphs |-> 1,
     defaults |-> << 1 >>,
     nodes |-> << >>,
     g |-> 0, ptc_graph |-> 0,
     v |-> 0, u |-> 0, scaled |-> 0, normed |-> 0, scaled_again |-> 0,
     x |-> 0, y |-> 0, z |-> 0, r |-> 0, theta |-> 0, phi |-> 0,
     session |-> [open |-> FALSE, graph |-> 0, values |-> << >>],
     input_vector |-> << >>,
     output_vector |-> << >>,
     stdout |-> << >>]

NoBuckets == [b \in BucketNames |-> NoObjects]

----------------------------------------------------------------------------
(* The neural-network notebook: graphs, nodes and sessions of tensorflow.   *)
(* The library's objects live in the kernel: py.graphs counts the Graph     *)
(* objects, py.defaults is the stack of default graphs, py.nodes[i] is      *)
(* node i (a Variable or an Operation with its output tensor); the Python   *)
(* names g, v, x, ... hold the number of a graph or of a node, 0 when not   *)
(* assigned yet.                                                            *)

\* the hidden graph that is the default when none is declared
DefaultGraph == 1

\* tensorflow.get_default_graph(): the top of the stack of defaults
CurrentGraph(p) == p.defaults[Len(p.defaults)]

\* tensorflow.Graph(): the new graph is p.graphs + 1
NewGraph(p) == [p EXCEPT !.graphs = @ + 1]

\* `with graph.as_default():` is entered
AsDefault(p, graph) == [p EXCEPT !.defaults = Append(@, graph)]

StayDefault(p) == p

\* the `with` block is left: the default that was current before is restored
LeaveDefault(p) == [p EXCEPT !.defaults = SubSeq(@, 1, Len(@) - 1)]

\* name = value
Bind(p, name, value) == [p EXCEPT ![name] = value]

\* the initial value of an operation (it has none)
NoInit == [random |-> FALSE, value |-> 0]

\* a node is created: it is added to the graph that is the default now
AddNode(p, kind, op, args, init) ==
    [p EXCEPT !.nodes = Append(@, [graph |-> CurrentGraph(p), kind |-> kind,
                                   op |-> op, args |-> args, init |-> init])]

\* tensorflow.Variable(random.random)
RandomVariable(p) ==
    AddNode(p, "Variable", "VariableV2", << >>, [random |-> TRUE, value |-> 0])

\* tensorflow.Variable(constant)
ConstantVariable(p, c) ==
    AddNode(p, "Variable", "VariableV2", << >>, [random |-> FALSE, value |-> c])

\* an operation on the tensors `args`; its output tensor is the new node
Operation(p, op, args) == AddNode(p, "Operation", op, args, NoInit)

\* the node created last
Newest(p) == Len(p.nodes)

\* the tensors of an operation must belong to the graph it is added to
SameGraph(p, args) ==
    \A i \in DOMAIN args :
        /\ args[i] \in DOMAIN p.nodes
        /\ p.nodes[args[i]].graph = CurrentGraph(p)

PolarToCartesianSwapped(p, r, theta, phi) ==
    LET s1 == Operation(p, "Sin", << phi >>)
        m1 == Operation(s1, "Mul", << r, Newest(s1) >>)
        c1 == Operation(m1, "Cos", << theta >>)
        x  == Operation(c1, "Mul", << Newest(m1), Newest(c1) >>)
        s2 == Operation(x, "Sin", << phi >>)
        m2 == Operation(s2, "Mul", << r, Newest(s2) >>)
        s3 == Operation(m2, "Sin", << theta >>)
        y  == Operation(s3, "Mul", << Newest(m2), Newest(s3) >>)
        c2 == Operation(y, "Cos", << phi >>)
        z  == Operation(c2, "Mul", << r, Newest(c2) >>)
    IN [p |-> z, result |-> << Newest(x), Newest(y), Newest(z) >>]

\* def polar_to_cartesian(r, theta, phi):
\*     x = r * sin(theta) * cos(phi)
\*     y = r * sin(theta) * sin(phi)
\*     z = r * cos(theta)
\*     return (x, y, z)
\* Each sin, cos and * adds an operation to the default graph, in the order
\* Python evaluates them; `result` holds the tensors returned.
polar_to_cartesian(p, r, theta, phi) ==
    LET s1 == Operation(p, "Sin", << theta >>)
        m1 == Operation(s1, "Mul", << r, Newest(s1) >>)
        c1 == Operation(m1, "Cos", << phi >>)
        x  == Operation(c1, "Mul", << Newest(m1), Newest(c1) >>)
        s2 == Operation(x, "Sin", << theta >>)
        m2 == Operation(s2, "Mul", << r, Newest(s2) >>)
        s3 == Operation(m2, "Sin", << phi >>)
        y  == Operation(s3, "Mul", << Newest(m2), Newest(s3) >>)
        c2 == Operation(y, "Cos", << theta >>)
        z  == Operation(c2, "Mul", << r, Newest(c2) >>)
    IN [p |-> z, result |-> << Newest(x), Newest(y), Newest(z) >>]

\* Numbers are float32 values in units of 1e-8: 1.0
Unit == 100000000

\* math.pi / 2.0 as the float32 the session holds: 1.5707964
HalfPi == 157079640

\* math.pi as the float32 the session holds: 3.1415927
Pi == 314159270

\* the values random.random may give a variable: 0.0 and 0.5
RandomValues == {0, Unit \div 2}

\* Unit = Base * Base
Base == 10000

\* the product of two numbers, computed on their halves so that no
\* intermediate value exceeds 32 bits
FMul(a, b) ==
    LET ah == a \div Base
        al == a % Base
        bh == b \div Base
        bl == b % Base
    IN ah * bh + ((ah * bl + al * bh + ((al * bl) \div Base)) \div Base)

\* tensorflow.math.sin on float32: the sine of the float32 nearest to pi is
\* -8.742278e-08, not 0
SinF(a) ==
    CASE a = 0 -> 0
      [] a = HalfPi -> Unit
      [] a = Pi -> -9

\* tensorflow.math.cos on float32: the cosine of the float32 nearest to
\* pi/2 is -4.371139e-08, not 0
CosF(a) ==
    CASE a = 0 -> Unit
      [] a = HalfPi -> -4
      [] a = Pi -> -Unit

RECURSIVE Ascending(_)
\* the numbers of a set of nodes in the order of their creation
Ascending(S) ==
    IF S = {} THEN << >>
    ELSE LET m == CHOOSE n \in S : \A k \in S : k <= n
         IN Append(Ascending(S \ {m}), m)

\* the collection of global variables of the default graph
GlobalVariables(p) ==
    {i \in DOMAIN p.nodes :
        p.nodes[i].kind = "Variable" /\ p.nodes[i].graph = CurrentGraph(p)}

\* tensorflow.global_variables_initializer(): an operation of the default
\* graph that initializes the variables the graph holds now
global_variables_initializer(p) ==
    Operation(p, "Init", Ascending(GlobalVariables(p)))

SessionOfHiddenGraph(p) ==
    [open |-> TRUE, graph |-> DefaultGraph, values |-> << >>]

\* tensorflow.Session(): with no graph given, the session runs the graph
\* that is the default when the session is made
Session(p) == [open |-> TRUE, graph |-> CurrentGraph(p), values |-> << >>]

\* session.run(op) can run the nodes of the session's graph only
InSessionGraph(p, ids) ==
    \A i \in DOMAIN ids : p.nodes[ids[i]].graph = p.session.graph

\* running the initializer gives each of its variables its initial value;
\* rnd[i] is what random.random answers for variable i
Initialized(p, op, rnd) ==
    LET vs == p.nodes[op].args
    IN [p EXCEPT !.session.values =
          [i \in (DOMAIN @) \cup {vs[k] : k \in DOMAIN vs} |->
              IF i \in {vs[k] : k \in DOMAIN vs}
              THEN IF p.nodes[i].init.random THEN rnd[i]
                   ELSE p.nodes[i].init.value
              ELSE @[i]]]

RECURSIVE VariablesOf(_, _)
\* the variables the value of node id depends on
VariablesOf(nodes, id) ==
    IF nodes[id].kind = "Variable" THEN {id}
    ELSE UNION {VariablesOf(nodes, nodes[id].args[k]) : k \in DOMAIN nodes[id].args}

RECURSIVE Eval(_, _, _)
\* the value of node id in a session whose variables hold `values`
Eval(nodes, values, id) ==
    LET n == nodes[id]
    IN CASE n.kind = "Variable" -> values[id]
         [] n.op = "Mul" -> FMul(Eval(nodes, values, n.args[1]),
                                 Eval(nodes, values, n.args[2]))
         [] n.op = "Sin" -> SinF(Eval(nodes, values, n.args[1]))
         [] n.op = "Cos" -> CosF(Eval(nodes, values, n.args[1]))

\* session.run(fetches) for a list of tensors: their values, in the order
\* of the list
SessionRun(p, fetches) ==
    [i \in DOMAIN fetches |-> Eval(p.nodes, p.session.values, fetches[i])]

\* every variable the fetches depend on has been initialized in the session
AllInitialized(p, fetches) ==
    \A i \in DOMAIN fetches :
        VariablesOf(p.nodes, fetches[i]) \subseteq DOMAIN p.session.values

FetchesAsNamed(xyz, rtp) == << rtp, xyz >>

\* the argument of session.run on the line
\* `input_vector, output_vector = session.run(([x,y,z], [r,theta,phi]))`
Fetches(xyz, rtp) == << xyz, rtp >>

(* The neural-network notebook: the graph is written for TensorBoard *)

\* the event FileWriter makes of the graph in run r of the notebook
GraphEvent(r) == [graph |-> "ptc_graph", run |-> r]

\* an event left in the directory by an earlier session
OldEvent == [graph |-> "ptc_graph", run |-> 0]

TensorboardAlwaysStarts(server, r) == [running |-> TRUE, pid |-> r]

\* %tensorboard --logdir DIR : a server that already runs is reused,
\* otherwise one is started; it keeps running when the magic returns
Tensorboard(server, r) ==
    IF server.running THEN server ELSE [running |-> TRUE, pid |-> r]

\* statements that change no graph and call nothing outside the kernel:
\* import tensorflow ..., def polar_to_cartesian ..., %load_ext tensorboard
KernelOnly ==
    /\ Cur \in {"t_import", "t_def_ptc", "t_load_ext"}
    /\ Return
    /\ UNCHANGED <<nb, tbVars, run, faults, log, py, gcloudVars, storageVars>>

\* g = tensorflow.Graph() ; ptc_graph = tensorflow.Graph()
MakeGraph ==
    /\ Cur \in {"t_g", "t_ptc_graph"}
    /\ py' = Bind(NewGraph(py), IF Cur = "t_g" THEN "g" ELSE "ptc_graph",
                  py.graphs + 1)
    /\ Return
    /\ UNCHANGED <<nb, tbVars, run, faults, log, gcloudVars, storageVars>>

\* v = tensorflow.Variable(random.random), with no graph declared
DefaultVariable ==
    /\ Cur \in {"t_v"}
    /\ py' = Bind(RandomVariable(py), "v", Newest(py) + 1)
    /\ Return
    /\ UNCHANGED <<nb, tbVars, run, faults, log, gcloudVars, storageVars>>

\* the cells that display v.graph, v.graph != g, v.graph == g, scaled.op
ShowNode ==
    /\ Cur \in {"t_v_graph", "t_v_neq", "t_v_eq", "t_scaled_op"}
    /\ LET graph == py.nodes[py.v].graph
           shown == CASE Cur = "t_v_graph" -> ToString(graph)
                      [] Cur = "t_v_neq" -> IF graph # py.g THEN "True" ELSE "False"
                      [] Cur = "t_v_eq" -> IF graph = py.g THEN "True" ELSE "False"
                      [] Cur = "t_scaled_op" -> py.nodes[py.scaled].op
       IN Logged(<< Cmd("display", Cur, TRUE, {shown}) >>)
    /\ Return
    /\ UNCHANGED <<nb, tbVars, run, faults, py, gcloudVars, storageVars>>

\* with g.as_default():
\*     v = tensorflow.Variable(random.random)       (t_with_v)
\*     u = tensorflow.Variable([1.0, 2.0, 3.0])     (t_u)
\*     scaled = tensorflow.math.scalar_mul(v, u)    (t_scaled)
\*     normed = tensorflow.norm(scaled)             (t_normed)
\*     scaled_again = v * u                         (t_scaled_again)
\* The block is entered, the node is created, the block is left; an
\* operation on a tensor of another graph raises ValueError.
WithG ==
    /\ Cur \in {"t_with_v", "t_u", "t_scaled", "t_normed", "t_scaled_again"}
    /\ LET inside == AsDefault(py, py.g)
           args == CASE Cur \in {"t_scaled", "t_scaled_again"} -> << py.v, py.u >>
                     [] Cur = "t_normed" -> << py.scaled >>
                     [] OTHER -> << >>
           built == CASE Cur = "t_with_v" -> Bind(RandomVariable(inside), "v",
                                                  Newest(inside) + 1)
                      [] Cur = "t_u" ->
                            Bind(ConstantVariable(inside,
                                                  << Unit, 2 * Unit, 3 * Unit >>),
                                 "u", Newest(inside) + 1)
                      [] Cur = "t_scaled" ->
                            Bind(Operation(inside, "Mul", args), "scaled",
                                 Newest(inside) + 1)
                      [] Cur = "t_normed" ->
                            Bind(Operation(inside, "Norm", args), "normed",
                                 Newest(inside) + 1)
                      [] Cur = "t_scaled_again" ->
                            Bind(Operation(inside, "Mul", args), "scaled_again",
                                 Newest(inside) + 1)
       IN IF SameGraph(inside, args)
          THEN /\ py' = LeaveDefault(built)
               /\ Return
          ELSE /\ py' = LeaveDefault(inside)
               /\ Raise
    /\ UNCHANGED <<nb, tbVars, run, faults, log, gcloudVars, storageVars>>

\* with ptc_graph.as_default():
\*     x = tensorflow.Variable(random.random)
\*     y = tensorflow.Variable(random.random)
\*     z = tensorflow.Variable(random.random)
\*     r, theta, phi = polar_to_cartesian(x,y,z)
WithPtcGraph ==
    /\ Cur \in {"t_ptc_with"}
    /\ LET inside == AsDefault(py, py.ptc_graph)
           x == Bind(RandomVariable(inside), "x", Newest(inside) + 1)
           y == Bind(RandomVariable(x), "y", Newest(x) + 1)
           z == Bind(RandomVariable(y), "z", Newest(y) + 1)
           call == polar_to_cartesian(z, z.x, z.y, z.z)
           bound == Bind(Bind(Bind(call.p, "r", call.result[1]),
                              "theta", call.result[2]),
                         "phi", call.result[3])
       IN py' = LeaveDefault(bound)
    /\ Return
    /\ UNCHANGED <<nb, tbVars, run, faults, log, gcloudVars, storageVars>>

\* tensorboard_dir = "tensorboard"
SetTensorboardDir ==
    /\ Cur \in {"t_dir"}
    /\ py' = [py EXCEPT !.tensorboard_dir = "tensorboard"]
    /\ Return
    /\ UNCHANGED <<nb, tbVars, run, faults, log, gcloudVars, storageVars>>

\* !mkdir -p {tensorboard_dir}
Mkdir ==
    /\ Cur \in {"t_mkdir"}
    /\ tbDir' = TRUE
    /\ Logged(<< Cmd("mkdir", py.tensorboard_dir, TRUE, {}) >>)
    /\ Shell(TRUE)
    /\ UNCHANGED <<nb, tbFiles, writerQueue, tb, run, faults, py, gcloudVars,
                   storageVars>>

\* !rm {tensorboard_dir}/* : fails when the directory holds no file
RmEvents ==
    /\ Cur \in {"t_rm"}
    /\ tbFiles' = {}
    /\ Logged(<< Cmd("rm", py.tensorboard_dir, tbFiles # {}, tbFiles) >>)
    /\ Shell(tbFiles # {})
    /\ UNCHANGED <<nb, tbDir, writerQueue, tb, run, faults, py, gcloudVars,
                   storageVars>>

\* tensorflow.summary.FileWriter(tensorboard_dir, ptc_graph)
\* The writer puts the graph event on its queue; its thread writes the
\* queue to the events file.
MakeFileWriter ==
    /\ Cur \in {"t_writer"}
    /\ tbDir' = TRUE
    /\ writerQueue' = Append(writerQueue, GraphEvent(run))
    /\ Logged(<< Cmd("FileWriter", py.tensorboard_dir, TRUE, {}) >>)
    /\ Return
    /\ UNCHANGED <<nb, tbFiles, tb, run, faults, py, gcloudVars, storageVars>>

\* the thread of the FileWriter writes the next queued event
WriterThread ==
    /\ nb = "nn"
    /\ writerQueue # << >>
    /\ tbFiles' = tbFiles \cup {Head(writerQueue)}
    /\ writerQueue' = Tail(writerQueue)
    /\ UNCHANGED <<nb, pc, halted, cellTrace, decisions, tbDir, tb, run,
                   faults, log, py, gcloudVars, storageVars>>

\* %tensorboard --logdir {tensorboard_dir}
TensorboardMagic ==
    /\ Cur \in {"t_tensorboard"}
    /\ tb' = Tensorboard(tb, run)
    /\ Logged(<< Cmd("tensorboard", py.tensorboard_dir, TRUE,
                     {IF tb' = tb THEN "reusing" ELSE "started"}) >>)
    /\ Return
    /\ UNCHANGED <<nb, tbDir, tbFiles, writerQueue, run, faults, py, gcloudVars,
                   storageVars>>

\* with ptc_graph.as_default():    (the block ends with the cell)
EnterPtcGraph ==
    /\ Cur \in {"t_session"}
    /\ py' = AsDefault(py, py.ptc_graph)
    /\ Return
    /\ UNCHANGED <<nb, tbVars, run, faults, log, gcloudVars, storageVars>>

\* r = tensorflow.Variable(1.0)
\* theta = tensorflow.Variable(math.pi / 2.0)
\* phi = tensorflow.Variable(math.pi)
SessionVariable ==
    /\ Cur \in {"t_r", "t_theta", "t_phi"}
    /\ py' = CASE Cur = "t_r" ->
                    Bind(ConstantVariable(py, Unit), "r", Newest(py) + 1)
              [] Cur = "t_theta" ->
                    Bind(ConstantVariable(py, HalfPi), "theta", Newest(py) + 1)
              [] Cur = "t_phi" ->
                    Bind(ConstantVariable(py, Pi), "phi", Newest(py) + 1)
    /\ Return
    /\ UNCHANGED <<nb, tbVars, run, faults, log, gcloudVars, storageVars>>

\* x, y, z = polar_to_cartesian(r, theta, phi)
Redefine ==
    /\ Cur \in {"t_xyz"}
    /\ LET call == polar_to_cartesian(py, py.r, py.theta, py.phi)
       IN py' = Bind(Bind(Bind(call.p, "x", call.result[1]),
                          "y", call.result[2]),
                     "z", call.result[3])
    /\ Return
    /\ UNCHANGED <<nb, tbVars, run, faults, log, gcloudVars, storageVars>>

\* with tensorflow.Session() as session:   (the session's graph becomes the
\* default inside the block, which ends with the cell)
OpenSession ==
    /\ Cur \in {"t_open"}
    /\ py' = AsDefault(Bind(py, "session", Session(py)), Session(py).graph)
    /\ Return
    /\ UNCHANGED <<nb, tbVars, run, faults, log, gcloudVars, storageVars>>

\* an exception inside the blocks leaves them: the session is closed and the
\* defaults that were current before the cell are restored
Unwound(p) ==
    [p EXCEPT !.session.open = FALSE,
              !.defaults = SubSeq(@, 1, Len(@) - 2)]

\* session.run(tensorflow.global_variables_initializer())
RunInitializer ==
    /\ Cur \in {"t_init"}
    /\ LET made == global_variables_initializer(py)
           op == Newest(made)
           randoms == {i \in GlobalVariables(py) : py.nodes[i].init.random}
       IN IF InSessionGraph(made, << op >>)
          THEN /\ \E rnd \in [randoms -> RandomValues] :
                     py' = Initialized(made, op, rnd)
               /\ Logged(<< Cmd("session.run", "initializer", TRUE, {}) >>)
               /\ Return
          ELSE /\ py' = Unwound(made)
               /\ Logged(<< Cmd("session.run", "initializer", FALSE, {}) >>)
               /\ Raise
    /\ UNCHANGED <<nb, tbVars, run, faults, gcloudVars, storageVars>>

\* input_vector, output_vector = session.run(([x,y,z], [r,theta,phi]))
\* A variable that has not been initialized raises FailedPreconditionError.
RunFetches ==
    /\ Cur \in {"t_run"}
    /\ LET fetches == Fetches(<< py.x, py.y, py.z >>, << py.r, py.theta, py.phi >>)
           ok == \A k \in DOMAIN fetches :
                    /\ InSessionGraph(py, fetches[k])
                    /\ AllInitialized(py, fetches[k])
       IN IF ok
          THEN /\ py' = [py EXCEPT !.input_vector = SessionRun(py, fetches[1]),
                                   !.output_vector = SessionRun(py, fetches[2])]
               /\ Logged(<< Cmd("session.run", "fetches", TRUE, {}) >>)
               /\ Return
          ELSE /\ py' = Unwound(py)
               /\ Logged(<< Cmd("session.run", "fetches", FALSE, {}) >>)
               /\ Raise
    /\ UNCHANGED <<nb, tbVars, run, faults, gcloudVars, storageVars>>

\* print("Results:")
\* print("  Input vector: [r, theta, phi] = %r" % output_vector)
\* print("  Output vector: [x, y, z] = %r\n" % input_vector)
\* After the last line the two `with` blocks are left: the session is
\* closed and the default graph of before the cell is restored.
Prints ==
    /\ Cur \in {"t_print_results", "t_print_in", "t_print_out"}
    /\ LET line == CASE Cur = "t_print_results" ->
                          [label |-> "Results:", values |-> << >>]
                     [] Cur = "t_print_in" ->
                          [label |-> "  Input vector: [r, theta, phi]",
                           values |-> py.output_vector]
                     [] Cur = "t_print_out" ->
                          [label |-> "  Output vector: [x, y, z]",
                           values |-> py.input_vector]
           printed == [py EXCEPT !.stdout = Append(@, line)]
       IN py' = IF Cur = "t_print_out"
                THEN [LeaveDefault(LeaveDefault(printed))
                         EXCEPT !.session.open = FALSE]
                ELSE printed
    /\ Return
    /\ UNCHANGED <<nb, tbVars, run, faults, log, gcloudVars, storageVars>>

\* The cells from `v = tensorflow.Variable(random.random)` on are executed
\* again in the same kernel, before the visualization cells.
RerunVariableCells ==
    /\ nb = "nn"
    /\ Cur = "t_def_ptc"
    /\ Cardinality({i \in DOMAIN py.nodes : py.nodes[i].graph = DefaultGraph})
          < MaxRuns
    /\ pc' = IndexOf("t_v")
    /\ cellTrace' = << >>
    /\ UNCHANGED <<nb, halted, decisions, tbVars, run, faults, log, py,
                   gcloudVars, storageVars>>

\* The kernel is restarted and the notebook is run again: the Python
\* objects are gone, with the writer's thread and what its queue still
\* held; the directory and the server process stay.
RestartNotebook ==
    /\ nb = "nn"
    /\ Done
    /\ run < MaxRuns
    /\ run' = run + 1
    /\ pc' = 1
    /\ cellTrace' = << >>
    /\ py' = PyInit
    /\ writerQueue' = << >>
    /\ UNCHANGED <<nb, halted, decisions, tbDir, tbFiles, tb, faults, log,
                   gcloudVars, storageVars>>

\* the state of the machine the notebooks run on: gcloud missing, present
\* but not authorized, or ready
InitEnv ==
    /\ installed \in BOOLEAN
    /\ authorized \in BOOLEAN
    /\ configProject \in {"", SelectedProjectName}

InitNoTensorboard ==
    /\ tbDir = FALSE
    /\ tbFiles = {}
    /\ writerQueue = << >>
    /\ tb = [running |-> FALSE, pid |-> 0]

InitGCloud ==
    /\ nb = "gcloud"
    /\ InitEnv
    /\ IF installed /\ authorized
       THEN /\ projects \in SUBSET ProjectIds
            /\ reservedIds \in SUBSET (ProjectIds \ projects)
       ELSE /\ projects = {}
            /\ reservedIds = {}
    /\ owned = {}
    /\ taken = {}
    /\ objects = NoBuckets
    /\ local = NoObjects
    /\ InitNoTensorboard

InitStorage ==
    /\ nb = "storage"
    /\ InitEnv
    /\ projects = {SelectedProjectName}
    /\ reservedIds = {}
    /\ IF installed /\ authorized /\ configProject # ""
       THEN /\ owned \in SUBSET {TutorialBucket}
            /\ taken \in SUBSET ({TutorialBucket, RandomBucket(0)} \ owned)
            /\ \E prior \in PriorListings :
                  objects = [b \in BucketNames |->
                                IF b \in owned THEN [n \in prior |-> "old"]
                                ELSE NoObjects]
            /\ \E files \in LocalListings : local = [n \in files |-> "nb"]
       ELSE /\ owned = {}
            /\ taken = {}
            /\ objects = NoBuckets
            /\ local = [n \in LocalNames |-> "nb"]
    /\ InitNoTensorboard

InitNyt ==
    /\ nb = "nyt"
    /\ InitEnv
    /\ projects = {SelectedProjectName}
    /\ reservedIds = {}
    /\ IF installed /\ authorized /\ configProject # ""
       THEN /\ owned \in SUBSET {NytBucket}
            /\ taken \in SUBSET ({NytBucket} \ owned)
            /\ \E prior \in SUBSET {NytName} :
                  objects = [b \in BucketNames |->
                                IF b \in owned THEN [n \in prior |-> "old"]
                                ELSE NoObjects]
            /\ \E files \in SUBSET {NytName} : local = [n \in files |-> "old"]
       ELSE /\ owned = {}
            /\ taken = {}
            /\ objects = NoBuckets
            /\ local = NoObjects
    /\ InitNoTensorboard

InitNn ==
    /\ nb = "nn"
    /\ installed = TRUE
    /\ authorized = TRUE
    /\ configProject = SelectedProjectName
    /\ projects = {SelectedProjectName}
    /\ reservedIds = {}
    /\ owned = {}
    /\ taken = {}
    /\ objects = NoBuckets
    /\ local = NoObjects
    /\ tbDir \in BOOLEAN
    /\ tbFiles \in (IF tbDir THEN {{}, {OldEvent}} ELSE {{}})
    /\ writerQueue = << >>
    /\ tb \in {[running |-> FALSE, pid |-> 0], [running |-> TRUE, pid |-> 0]}

Init ==
    /\ pc = 1
    /\ halted = FALSE
    /\ cellTrace = << >>
    /\ run = 1
    /\ faults = 0
    /\ log = << >>
    /\ decisions = {}
    /\ py = PyInit
    /\ \/ InitGCloud
       \/ InitStorage
       \/ InitNyt
       \/ InitNn

Next ==
    \/ WhichGcloud
    \/ AuthOrLogin
    \/ Display
    \/ ProjectsList
    \/ PickProjectName
    \/ ProjectsCreate
    \/ ProjectsDescribe
    \/ ProjectsDelete
    \/ SetProjectName
    \/ ConfigSetProject
    \/ CheckProject
    \/ GsutilLs
    \/ GsutilLsBucket
    \/ PickBucketName
    \/ GsutilMb
    \/ GsutilRb
    \/ SetBucket
    \/ CaptureBuckets
    \/ MbIfAbsent
    \/ RerunCreateBucketCell
    \/ ListNotebooks
    \/ GsutilCp
    \/ GsutilRm
    \/ GsutilRmR
    \/ PipInstall
    \/ SetApiKey
    \/ GetList
    \/ LoadsList
    \/ PrintUrls
    \/ SelectUrl
    \/ GetArticle
    \/ MakeSoup
    \/ FindArticle
    \/ GetText
    \/ WriteArticle
    \/ SetNytBucket
    \/ SetCloudFilename
    \/ GsutilCpFile
    \/ AnalyzeEntities
    \/ JoinLines
    \/ LoadsAnalysis
    \/ MentionsLists
    \/ FlattenMentions
    \/ MentionTexts
    \/ MakeDataFrame
    \/ UniqueContent
    \/ KernelOnly
    \/ SetTensorboardDir
    \/ Mkdir
    \/ RmEvents
    \/ MakeFileWriter
    \/ WriterThread
    \/ TensorboardMagic
    \/ MakeGraph
    \/ DefaultVariable
    \/ ShowNode
    \/ WithG
    \/ WithPtcGraph
    \/ EnterPtcGraph
    \/ SessionVariable
    \/ Redefine
    \/ OpenSession
    \/ RunInitializer
    \/ RunFetches
    \/ Prints
    \/ RerunVariableCells
    \/ RestartNotebook

Spec == Init /\ [][Next]_vars

----------------------------------------------------------------------------
(* Helpers of the properties *)

\* the log entries statement s made in run r
Entries(s, r) == {i \in DOMAIN log : log[i].stmt = s /\ log[i].run = r}

\* statement s has been executed in run r
Passed(s, r) == run > r \/ (run = r /\ (halted \/ pc > IndexOf(s)))

Last == log[Len(log)]

----------------------------------------------------------------------------
(* The GCloud notebook *)

\* C3: the randomly named project is created, described, selected and then
\* deleted: whenever gcloud projects delete is invoked on a project, that
\* project was created, then described, then selected with gcloud config set
\* project, in that order, before.
C3_CreateDescribeSelectDelete ==
    \A i \in DOMAIN log :
        (log[i].verb = "delete" /\ log[i].ok) =>
            \E c, d, s \in 1..(i - 1) :
                /\ c < d /\ d < s
                /\ log[c].verb = "create" /\ log[c].arg = log[i].arg
                /\ log[d].verb = "describe" /\ log[d].arg = log[i].arg
                /\ log[s].verb = "select" /\ log[s].arg = log[i].arg

ProjectCallsOk ==
    \A i \in DOMAIN log :
        log[i].verb \in {"list", "create", "describe", "delete"} => log[i].ok

\* C4: when every projects call succeeds, the created project is absent from
\* the first projects list, present in the list after create and absent from
\* the list after delete; create, describe and delete name the same project.
C4_ListsFollowCreateAndDelete ==
    (nb = "gcloud" /\ ProjectCallsOk) =>
        \A c, i \in DOMAIN log :
            log[c].verb = "create" =>
                /\ log[i].stmt = "g_list1" => log[c].arg \notin log[i].out
                /\ log[i].stmt = "g_list2" => log[c].arg \in log[i].out
                /\ log[i].stmt = "g_list3" => log[c].arg \notin log[i].out
                /\ log[i].verb \in {"describe", "delete"} => log[i].arg = log[c].arg

C4_Witness ==
    /\ nb = "gcloud"
    /\ ProjectCallsOk
    /\ \E i, j \in DOMAIN log : log[i].stmt = "g_list3" /\ log[j].verb = "delete"

----------------------------------------------------------------------------
(* The Storage notebook *)

\* C2: in every execution of the cell, gsutil mb is invoked exactly when the
\* bucket string is not among the lines gsutil ls returned; once an
\* execution found the bucket listed or made it, a later execution whose
\* gsutil ls succeeds does not invoke mb; and the final gsutil ls of the cell
\* lists the bucket whenever mb succeeded or was skipped.
C2_MbExactlyWhenNotListed ==
    nb = "storage" =>
        /\ \A r \in 1..run :
              Passed("s_mb_if", r) =>
                 \A k \in Entries("s_buckets", r) :
                    (Entries("s_mb_if", r) # {}) <=> (BucketLiteral \notin log[k].out)
        /\ \A r, q \in 1..run :
              (/\ r < q
               /\ Passed("s_mb_if", q)
               /\ \/ \E k \in Entries("s_buckets", r) : BucketLiteral \in log[k].out
                  \/ \E m \in Entries("s_mb_if", r) : log[m].ok
               /\ \A k \in Entries("s_buckets", q) : log[k].ok)
                 => Entries("s_mb_if", q) = {}
        /\ \A r \in 1..run : \A l \in Entries("s_ls4", r) :
              (log[l].ok /\ \A m \in Entries("s_mb_if", r) : log[m].ok)
                 => BucketLiteral \in log[l].out

C2_Witness ==
    /\ nb = "storage"
    /\ run > 1
    /\ Passed("s_mb_if", run)
    /\ Entries("s_mb_if", run) = {}
    /\ \E m \in Entries("s_mb_if", 1) : log[m].ok

\* the statements that are `!` command lines
CommandStmts ==
    ({GCloudStmts[i] : i \in DOMAIN GCloudStmts}
        \cup {StorageStmts[i] : i \in DOMAIN StorageStmts})
        \ {"g_name", "g_set_name", "s_name", "s_bucket", "s_notebooks"}

C10_AllIpynbCopiedAndRemoved ==
    (nb = "storage" /\ log # << >> /\ Last.ok) =>
        /\ Last.stmt = "s_cp" =>
              \A n \in DOMAIN local :
                 EndsWith(n, IpynbSuffix) => n \in DOMAIN objects[BucketOf(py.bucket)]
        /\ Last.stmt = "s_rm" =>
              \A n \in DOMAIN objects[BucketOf(py.bucket)] : ~EndsWith(n, IpynbSuffix)

\* C10 amended: a successful copy makes every local file whose name ends in
\* .ipynb and does not start with "." an object of the bucket, with the
\* file's data, and changes no other object; a successful removal removes
\* exactly the objects whose name ends in .ipynb and holds no "/", and
\* leaves the bucket and its other objects as they were.
C10_GlobbedIpynbCopiedAndRemoved ==
    [][ (nb = "storage" /\ log' # log /\ log'[Len(log')].ok) =>
          LET b == BucketOf(py.bucket)
          IN /\ Cur = "s_cp" =>
                   /\ \A n \in DOMAIN local :
                         (EndsWith(n, IpynbSuffix) /\ n[1] # ".") =>
                            /\ n \in DOMAIN objects'[b]
                            /\ objects'[b][n] = local[n]
                   /\ \A n \in DOMAIN objects[b] :
                         /\ n \in DOMAIN objects'[b]
                         /\ n \notin DOMAIN local => objects'[b][n] = objects[b][n]
                   /\ owned' = owned
             /\ Cur = "s_rm" =>
                   /\ b \in owned'
                   /\ \A n \in DOMAIN objects[b] :
                         IF EndsWith(n, IpynbSuffix) /\ \A k \in DOMAIN n : n[k] # "/"
                         THEN n \notin DOMAIN objects'[b]
                         ELSE n \in DOMAIN objects'[b] /\ objects'[b][n] = objects[b][n]
                   /\ DOMAIN objects'[b] \subseteq DOMAIN objects[b]
      ]_vars

C10_Witness ==
    /\ nb = "storage"
    /\ log # << >>
    /\ Last.stmt = "s_rm"
    /\ Last.ok
    /\ \E n \in DOMAIN objects[BucketOf(py.bucket)] : EndsWith(n, IpynbSuffix)
    /\ \E n \in DOMAIN local : EndsWith(n, IpynbSuffix) /\ n[1] = "."

\* C9: after a successful gsutil rm -r neither the bucket nor any object
\* stored under it exists.
C9_RecursiveRemoveLeavesNothing ==
    (log # << >> /\ Last.verb = "rm-r" /\ Last.ok) =>
        /\ BucketOf(Last.arg) \notin owned
        /\ DOMAIN objects[BucketOf(Last.arg)] = {}

C9_Witness ==
    /\ log # << >>
    /\ Last.verb = "rm-r"
    /\ Last.ok
    /\ \E n \in Last.out : \E i \in DOMAIN n : n[i] = "/"

----------------------------------------------------------------------------
(* The New York Times notebook *)

\* C1: the url fetched by the second GET is the url of the first entry of
\* the `results` list.
C1_FirstResultIsScraped ==
    \A i \in DOMAIN log :
        log[i].stmt = "n_get_article" =>
            log[i].arg = PyItem(py.response_json.results, 0).url

\* the steps of the notebook, in the order the claim gives them
NytSteps ==
    << "n_get_list", "n_select_url", "n_get_article", "n_get_text", "n_write",
       "n_cp", "n_analyze", "n_loads_analysis", "n_mentions" >>

----------------------------------------------------------------------------
(* Cells *)

\* C6 as stated: after a failing call no later statement of the cell runs.
C6_FailureAbortsCell ==
    \A i \in 1..(Len(cellTrace) - 1) : cellTrace[i].ok

\* C6 amended: a Python statement that raises aborts its cell, no later
\* statement of the cell runs; a `!` command that fails does not: the
\* statements after it in the cell still run.
C6_OnlyExceptionsAbortCell ==
    /\ \A i \in 1..(Len(cellTrace) - 1) :
          ~cellTrace[i].ok => cellTrace[i].kind = "shell"
    /\ halted <=> /\ cellTrace # << >>
                  /\ cellTrace[Len(cellTrace)].kind = "python"
                  /\ ~cellTrace[Len(cellTrace)].ok

C6_Witness ==
    /\ nb = "nyt"
    /\ Len(cellTrace) = 2
    /\ cellTrace[1].kind = "shell"
    /\ ~cellTrace[1].ok
    /\ cellTrace[2].stmt = "n_pip_requests"

----------------------------------------------------------------------------
(* The neural-network notebook *)

\* C8 as stated: when the %tensorboard cell starts, the graph event of this
\* run is in the tensorboard directory; and no process a cell started is
\* running when a later cell or a later run starts.
C8_CallsCompleteWithinTheirCell ==
    nb = "nn" =>
        /\ Cur = "t_load_ext" => GraphEvent(run) \in tbFiles
        /\ ~(tb.running /\ tb.pid >= 1)

\* C8 amended: every `!` command has completed, its effects in place, when
\* the next cell starts (the directory exists and holds no event of an
\* earlier run); the graph event is written by the thread of the FileWriter,
\* so when the %tensorboard cell starts it is in the directory or still
\* queued; the server %tensorboard started keeps running after its cell and
\* a later run reuses it.
C8_ShellCompletesServerPersists ==
    nb = "nn" =>
        /\ Cur = "t_load_ext" =>
              /\ tbDir
              /\ tbFiles \subseteq {GraphEvent(run)}
              /\ \/ GraphEvent(run) \in tbFiles
                 \/ \E i \in DOMAIN writerQueue : writerQueue[i] = GraphEvent(run)
        /\ Passed("t_tensorboard", 1) => tb.running
        /\ \A i \in DOMAIN log :
              (log[i].verb = "tensorboard" /\ log[i].run > 1) =>
                  /\ log[i].out = {"reusing"}
                  /\ tb.pid < log[i].run

C8_Witness ==
    /\ nb = "nn"
    /\ run = 2
    /\ Cur = "t_session"
    /\ tb.pid = 1
    /\ writerQueue # << >>

----------------------------------------------------------------------------
(* The setup cells *)

\* the statements of the setup cells of the notebook
SetupStmts == {"g_which", "g_auth", "s_which", "s_auth", "s_project"}

\* C11: gcloud auth login is invoked exactly when gcloud auth
\* print-access-token failed, right after it and by the same line;
\* "Install GCloud." is echoed exactly when which gcloud failed; and whatever
\* the setup commands answered the notebook is not aborted: every command
\* line that has been passed was run, and at the end of the notebook each
\* line after the setup cells has been run.
C11_LoginAndEchoOnlyOnFailure ==
    nb \in {"gcloud", "storage"} =>
        /\ \A i \in DOMAIN log :
              /\ log[i].verb = "login" =>
                    /\ i > 1
                    /\ log[i - 1].verb = "print-access-token"
                    /\ log[i - 1].stmt = log[i].stmt
                    /\ ~log[i - 1].ok
              /\ (log[i].verb = "print-access-token" /\ ~log[i].ok) =>
                    /\ i < Len(log)
                    /\ log[i + 1].verb = "login"
              /\ (log[i].verb = "echo" /\ log[i].arg = "Install GCloud.") =>
                    /\ i > 1
                    /\ log[i - 1].verb = "which"
                    /\ log[i - 1].stmt = log[i].stmt
                    /\ ~log[i - 1].ok
              /\ (log[i].verb = "which" /\ ~log[i].ok) =>
                    /\ i < Len(log)
                    /\ log[i + 1].verb = "echo"
                    /\ log[i + 1].arg = "Install GCloud."
        /\ ~halted
        /\ \A k \in 1..(pc - 1) :
              (Program(nb)[k] \in CommandStmts \ {"s_mb_if"}) =>
                  \E i \in DOMAIN log : log[i].stmt = Program(nb)[k]

\* both setup commands failed, and the notebook has run to its end
C11_Witness ==
    /\ nb = "storage"
    /\ Done
    /\ \E i \in DOMAIN log : log[i].verb = "which" /\ ~log[i].ok
    /\ \E i \in DOMAIN log : log[i].verb = "login" /\ ~log[i].ok
    /\ \E i \in DOMAIN log : log[i].stmt = "s_rm_r"

----------------------------------------------------------------------------
(* The listing of the mentions *)

RECURSIVE MentionsBefore(_, _)
\* how many mentions the entities before entity e hold
MentionsBefore(es, e) ==
    IF e = 1 THEN 0 ELSE MentionsBefore(es, e - 1) + Len(es[e - 1].mentions)

\* C12: once `texts` is built, `mentions` is the concatenation of the
\* mentions lists of the entities in entity order: it is as long as the
\* lists together, mention j of entity e stands at place j after all the
\* mentions of the entities before e, and texts[i] is the text of
\* mentions[i].
C12_MentionsAreConcatenation ==
    (nb = "nyt" /\ pc > IndexOf("n_texts")) =>
        LET es == py.entities
        IN /\ Len(py.mentions) = MentionsBefore(es, Len(es) + 1)
           /\ \A e \in DOMAIN es : \A j \in DOMAIN es[e].mentions :
                 py.mentions[MentionsBefore(es, e) + j] = es[e].mentions[j]
           /\ Len(py.texts) = Len(py.mentions)
           /\ \A i \in DOMAIN py.mentions : py.texts[i] = py.mentions[i].text

\* two entities with mentions have been flattened, the first with two
C12_Witness ==
    /\ nb = "nyt"
    /\ pc > IndexOf("n_texts")
    /\ Len(py.entities) = 2
    /\ Len(py.entities[1].mentions) = 2
    /\ Len(py.mentions) = 3

\* C17: when the last listing is produced it holds the content of every
\* mention of every entity, no value twice, and nothing that is not the
\* content of a mention.  (With no mention at all the frame has no column
\* "content" and the cell raises instead of listing.)
C17_UniqueContents ==
    (nb = "nyt" /\ pc > IndexOf("n_unique")) =>
        LET contents == UNION {{py.entities[e].mentions[j].text.content :
                                   j \in DOMAIN py.entities[e].mentions} :
                               e \in DOMAIN py.entities}
        IN /\ {py.unique[i] : i \in DOMAIN py.unique} = contents
           /\ \A i, j \in DOMAIN py.unique : py.unique[i] = py.unique[j] => i = j
           /\ contents # {}

\* a content that two mentions share, not next to each other, is listed once
C17_Witness ==
    /\ nb = "nyt"
    /\ pc > IndexOf("n_unique")
    /\ Len(py.mentions) = 3
    /\ py.mentions[1] = py.mentions[3]
    /\ Len(py.unique) = 2

----------------------------------------------------------------------------
(* Graphs, nodes and the session of the neural-network notebook *)

\* the statements inside the `with` blocks of the cell that runs the graph
\* (the blocks are entered by t_session and left after t_print_out)
InsideSessionCell ==
    {"t_r", "t_theta", "t_phi", "t_xyz", "t_open", "t_init", "t_run",
     "t_print_results", "t_print_in", "t_print_out"}

\* the graph the statement at pc declares for the nodes it creates
DeclaredGraph ==
    IF Cur = "t_v" THEN DefaultGraph
    ELSE IF Cur \in {"t_with_v", "t_u", "t_scaled", "t_normed", "t_scaled_again"}
         THEN py.g
    ELSE py.ptc_graph

\* C13: a node belongs to one graph, fixed when it is created: no step
\* changes the graph of a node that exists (short of a restart of the
\* kernel); a node created inside `with g.as_default():` belongs to g, one
\* created with no graph declared belongs to the hidden default graph, which
\* is not g; and when a `with` block has been left the hidden graph is the
\* default again, so that a later node is not added to g.  The cells
\* `v.graph != g` and `v.graph == g` both show True.
C13_NodesBelongToDeclaredGraph ==
    [][ nb = "nn" =>
          \/ py' = PyInit
          \/ /\ Len(py'.nodes) >= Len(py.nodes)
             /\ \A i \in DOMAIN py.nodes : py'.nodes[i].graph = py.nodes[i].graph
             /\ \A i \in (Len(py.nodes) + 1)..Len(py'.nodes) :
                   /\ py'.nodes[i].graph = DeclaredGraph
                   /\ Cur = "t_v" => py'.nodes[i].graph # py.g
             /\ py'.g # DefaultGraph
             /\ (pc' > Len(NnStmts) \/ NnStmts[pc'] \notin InsideSessionCell)
                   => py'.defaults = << DefaultGraph >>
             /\ \A i \in DOMAIN log' :
                   log'[i].stmt \in {"t_v_neq", "t_v_eq"} => log'[i].out = {"True"}
      ]_vars

\* a variable was created with no graph declared after one was created in g
C13_Witness ==
    /\ nb = "nn"
    /\ \E i, j \in DOMAIN py.nodes :
          /\ i < j
          /\ py.nodes[i].graph = py.g
          /\ py.nodes[j].graph = DefaultGraph
    /\ \E i \in DOMAIN log : log[i].stmt = "t_v_eq"

\* the variables of graph `graph`
VariablesIn(graph) ==
    {i \in DOMAIN py.nodes :
        py.nodes[i].kind = "Variable" /\ py.nodes[i].graph = graph}

\* C14: the session of the cell runs ptc_graph, not the hidden default
\* graph; when session.run evaluates x, y, z every variable of ptc_graph,
\* the three of the visualization cell and r, theta, phi, has been
\* initialized by the run of the initializer, which came first; no run of
\* the session fails on an uninitialized variable.
C14_InitializedBeforeEvaluated ==
    nb = "nn" =>
        /\ py.session.graph # 0 =>
              /\ py.session.graph = py.ptc_graph
              /\ py.session.graph # DefaultGraph
        /\ (~halted /\ pc >= IndexOf("t_run")) =>
              /\ VariablesIn(py.ptc_graph) = DOMAIN py.session.values
              /\ Cardinality(VariablesIn(py.ptc_graph)) = 6
              /\ {py.r, py.theta, py.phi} \subseteq DOMAIN py.session.values
        /\ \A i \in DOMAIN log :
              log[i].verb = "session.run" =>
                  /\ log[i].ok
                  /\ log[i].arg = "fetches" =>
                        /\ i > 1
                        /\ log[i - 1].verb = "session.run"
                        /\ log[i - 1].arg = "initializer"
                        /\ log[i - 1].run = log[i].run

\* x, y, z have been evaluated in a session that holds six variables
C14_Witness ==
    /\ nb = "nn"
    /\ pc > IndexOf("t_run")
    /\ Len(py.input_vector) = 3
    /\ Cardinality(DOMAIN py.session.values) = 6

\* node id is the operation op on the tensors args
IsOp(id, op, args) ==
    /\ py.nodes[id].kind = "Operation"
    /\ py.nodes[id].op = op
    /\ py.nodes[id].args = args

\* node id is r * f1(a1) * f2(a2)
IsProduct3(id, r, f1, a1, f2, a2) ==
    /\ py.nodes[id].kind = "Operation"
    /\ py.nodes[id].op = "Mul"
    /\ Len(py.nodes[id].args) = 2
    /\ LET m == py.nodes[id].args[1]
           c == py.nodes[id].args[2]
       IN /\ IsOp(c, f2, << a2 >>)
          /\ py.nodes[m].op = "Mul"
          /\ Len(py.nodes[m].args) = 2
          /\ py.nodes[m].args[1] = r
          /\ IsOp(py.nodes[m].args[2], f1, << a1 >>)

\* node id is r * f(a)
IsProduct2(id, r, f, a) ==
    /\ py.nodes[id].op = "Mul"
    /\ Len(py.nodes[id].args) = 2
    /\ py.nodes[id].args[1] = r
    /\ IsOp(py.nodes[id].args[2], f, << a >>)

\* the three tensors are r*sin(theta)*cos(phi), r*sin(theta)*sin(phi) and
\* r*cos(theta), in this order
IsCartesian(x, y, z, r, theta, phi) ==
    /\ IsProduct3(x, r, "Sin", theta, "Cos", phi)
    /\ IsProduct3(y, r, "Sin", theta, "Sin", phi)
    /\ IsProduct2(z, r, "Cos", theta)

\* a and b differ by no more than the rounding of a float32 (1.2e-7)
Near(a, b) == a - b <= 12 /\ b - a <= 12

\* C15: polar_to_cartesian(r, theta, phi) returns, in the order (x, y, z),
\* the tensors r*sin(theta)*cos(phi), r*sin(theta)*sin(phi), r*cos(theta),
\* in its call of the visualization cell (where its arguments are the
\* variables named x, y, z and its results are named r, theta, phi) and in
\* its call of the cell that runs the graph; evaluated for r = 1,
\* theta = pi/2, phi = pi the result is (-1, 0, 0) up to the rounding of
\* float32.
C15_PolarToCartesian ==
    (nb = "nn" /\ ~halted) =>
        /\ (pc > IndexOf("t_ptc_with") /\ pc <= IndexOf("t_r")) =>
              IsCartesian(py.r, py.theta, py.phi, py.x, py.y, py.z)
        /\ pc > IndexOf("t_xyz") =>
              IsCartesian(py.x, py.y, py.z, py.r, py.theta, py.phi)
        /\ pc > IndexOf("t_run") =>
              /\ py.session.values[py.r] = Unit
              /\ py.session.values[py.theta] = HalfPi
              /\ py.session.values[py.phi] = Pi
              /\ Len(py.input_vector) = 3
              /\ Near(py.input_vector[1], -Unit)
              /\ Near(py.input_vector[2], 0)
              /\ Near(py.input_vector[3], 0)

\* the conversion has been evaluated, and y and z are not exactly 0
C15_Witness ==
    /\ nb = "nn"
    /\ pc > IndexOf("t_run")
    /\ py.input_vector[1] = -Unit
    /\ py.input_vector[2] # 0
    /\ py.input_vector[3] # 0

\* C16: the line labelled "Input vector: [r, theta, phi]" shows the values
\* of the variables r, theta, phi in this order, and the line labelled
\* "Output vector: [x, y, z]" shows the values of the tensors x, y, z that
\* polar_to_cartesian(r, theta, phi) returned, in this order.
C16_PrintedUnderTheirLabels ==
    nb = "nn" =>
        \A k \in DOMAIN py.stdout :
            /\ py.stdout[k].label = "  Input vector: [r, theta, phi]" =>
                  py.stdout[k].values = << py.session.values[py.r],
                                           py.session.values[py.theta],
                                           py.session.values[py.phi] >>
            /\ py.stdout[k].label = "  Output vector: [x, y, z]" =>
                  /\ IsCartesian(py.x, py.y, py.z, py.r, py.theta, py.phi)
                  /\ py.stdout[k].values =
                        << Eval(py.nodes, py.session.values, py.x),
                           Eval(py.nodes, py.session.values, py.y),
                           Eval(py.nodes, py.session.values, py.z) >>

\* both vectors have been printed, and they differ
C16_Witness ==
    /\ nb = "nn"
    /\ Len(py.stdout) = 3
    /\ py.stdout[2].label = "  Input vector: [r, theta, phi]"
    /\ py.stdout[3].label = "  Output vector: [x, y, z]"
    /\ py.stdout[2].values = << Unit, HalfPi, Pi >>
    /\ py.stdout[3].values # py.stdout[2].values

====
